---- MODULE Spec2Model ----
(***************************************************************************)
(* Model of the bulk-download pipeline of amdump/articlemeta.py: dump()    *)
(* drives a ThreadPoolExecutor whose workers run download_doc(), with a    *)
(* shared PoisonPill for cooperative cancellation.                         *)
(*                                                                         *)
(* The main thread and every worker thread advance one statement with an   *)
(* externally visible effect at a time, so every interleaving of the       *)
(* workers with the main thread is explored.  A single KeyboardInterrupt   *)
(* may reach the main thread anywhere inside dump's try block.             *)
(***************************************************************************)
EXTENDS Integers, Sequences, FiniteSets, TLC

\* ---------------------------------------------------------------- bounds
MaxLines == 2          \* number of lines of pids_file
MaxConcurrency == 2    \* largest value of the concurrency argument
MaxDocLines == 1       \* number of lines of pids_file in SpecDoc

\* ------------------------------------------------------------- constants
Whitespace == {"\n", " "}
\* the lines a pids_file may hold: a blank line and one line per pid
LineValues == {<<"\n">>, <<"p1", "\n">>, <<"p2", "\n">>}

\* payloads, as byte sequences
NullSentinel == <<"n", "u", "l", "l">>       \* b'null'
OtherFour == <<"t", "r", "u", "e">>          \* another 4-byte body
Document == <<"{", "}">>                     \* a real document
OldContent == <<"o", "l", "d">>              \* a file left by an earlier run
Responses == {Document, NullSentinel, OtherFour}

\* defaults of dump()'s keyword arguments
DefaultOverwrite == FALSE
DefaultPreserveNull == TRUE

VARIABLES
    lines,           \* pids_file, a sequence of lines
    concurrency,     \* dump(concurrency=...)
    overwrite,       \* dump(overwrite=...)
    preservenull,    \* dump(preservenull=...)
    fs,              \* the files on disk: dest -> contents
    dirs,            \* whether dirname(dest) exists
    poisoned,        \* pill.poisoned
    mainpc,          \* position of the main thread inside dump
    nextLine,        \* next line get_pid_and_dest will read
    future_to_file,  \* task index -> dest, in submission order
    ftfBound,        \* whether the name future_to_file is bound
    fut,             \* task index -> state of its Future
    exc,             \* task index -> the Future holds an exception
    queue,           \* executor._work_queue
    numThreads,      \* len(executor._threads)
    tpc,             \* task index -> position inside download_doc
    content,         \* task index -> payload returned by http.get
    interrupted,     \* "no", or where the KeyboardInterrupt was raised
    cancelIdx,       \* position of the cancel loop in future_to_file
    cancelRequested, \* futures on which cancel() was called
    collected,       \* futures as_completed has yielded
    progress,        \* sum of pbar.update(1)
    logged,          \* tasks reported by LOGGER.exception
    io,              \* task index -> kinds of I/O it has performed
    outcomes,        \* task index -> ways in which it ended
    execCount,       \* task index -> number of times it was started
    beganPhase,      \* task index -> what the main thread had done about
                     \* an interrupt when the task was started
    foundExisting,   \* task index -> it ran with overwrite off and its
                     \* dest on disk
    remote,          \* the bodies the remote service may answer with
    propagating,     \* exception travelling out of dump, "none" if none
    workAfterPoison, \* tasks doing real work after the pill was poisoned
    \* ---- amdump/http.py: one call of the retrying get
    hpc,             \* position inside retry_gracefully's wrapper
    retry,           \* the wrapper's retry counter
    max_retries,     \* retry_gracefully.max_retries
    attempts,        \* what requests.get did at each invocation of get
    sleeps,          \* the waits passed to _sleep, in order
    pendingExc,      \* the exception the except clause is handling
    raisedExc,       \* the exception that left the wrapper
    returnedBody,    \* the bytes the wrapper returned
    \* ---- amdump/articlemeta.py: Dumper and iter_docs
    dpc,             \* position of the Dumper's run
    default_from_date, \* Dumper.default_from_date
    lastExists,      \* whether lastdate.txt exists
    lastData,        \* contents of lastdate.txt, <<>> when empty
    dates,           \* Dumper._dates
    pidsFile,        \* the lines written to pids_<from>_<today>.txt
    iterFrom,        \* from_dt as given to iter_docs
    offset,          \* iter_docs' offset
    requested,       \* the limit and offset of iter_docs' requests, in order
    pagesGot,        \* the pages the listing endpoint answered with
    yielded,         \* the (code, processing_date) pairs iter_docs yielded
    runNo,           \* number of the Dumper's run
    datesFile,       \* the lines written to dates.txt
    lastBefore,      \* lastdate.txt as it was when the run started
    prevNewest,      \* newest processing date of the previous run
    \* ---- a second call of dump over the same pids_file
    first            \* what the first call of dump left behind

inputVars == <<lines, concurrency, overwrite, preservenull, remote>>
mainVars == <<mainpc, nextLine, future_to_file, ftfBound, interrupted,
              cancelIdx, cancelRequested, collected, progress, logged,
              propagating>>
poolVars == <<fut, exc, queue, numThreads, execCount, beganPhase>>
taskVars == <<tpc, content, io, outcomes, foundExisting, workAfterPoison>>
diskVars == <<fs, dirs>>
pipelineVars == <<inputVars, mainVars, poolVars, taskVars, diskVars, poisoned>>
httpVars == <<hpc, retry, max_retries, attempts, sleeps, pendingExc,
              raisedExc, returnedBody>>
dumperVars == <<dpc, default_from_date, lastExists, lastData, dates, pidsFile,
                iterFrom, offset, requested, pagesGot, yielded, runNo,
                datesFile, lastBefore, prevNewest>>
rerunVars == <<first>>
vars == <<pipelineVars, httpVars, dumperVars, rerunVars>>

TaskIds == 1..MaxLines
Tasks == 1..Len(future_to_file)

\* the tasks some worker thread is executing
Running == {t \in Tasks : fut[t] = "RUNNING"}

\* str.strip() of a line
StripNothing(line) == line
Strip(line) == SelectSeq(line, LAMBDA c: c \notin Whitespace)

\* os.path.join(working_dir, pid + extension)
DestOf(pid) == <<"dest_dir">> \o pid \o <<".json">>

Dests == {DestOf(Strip(l)) : l \in {v \in LineValues : Strip(v) # <<>>}}

\* os.path.exists(dest)
Exists(dest) == dest \in DOMAIN fs

\* the file system after dest holds data
FsWrite(dest, data) ==
    [d \in (DOMAIN fs) \cup {dest} |-> IF d = dest THEN data ELSE fs[d]]

\* the state dump starts from, whatever its arguments
InitRun ==
    /\ poisoned = FALSE
    /\ mainpc = "submit"
    /\ nextLine = 1
    /\ future_to_file = <<>>
    /\ ftfBound = FALSE
    /\ fut = [t \in TaskIds |-> "NONE"]
    /\ exc = [t \in TaskIds |-> FALSE]
    /\ queue = <<>>
    /\ numThreads = 0
    /\ tpc = [t \in TaskIds |-> "none"]
    /\ content = [t \in TaskIds |-> <<>>]
    /\ interrupted = "no"
    /\ cancelIdx = 1
    /\ cancelRequested = {}
    /\ collected = {}
    /\ progress = 0
    /\ logged = {}
    /\ io = [t \in TaskIds |-> {}]
    /\ outcomes = [t \in TaskIds |-> {}]
    /\ execCount = [t \in TaskIds |-> 0]
    /\ beganPhase = [t \in TaskIds |-> "none"]
    /\ foundExisting = [t \in TaskIds |-> FALSE]
    /\ propagating = "none"
    /\ workAfterPoison = {}

\* an exception, and the absence of one
NoExc == [type |-> "none", id |-> 0]

\* no earlier call of dump
NoFirst == [ended |-> "none", fs |-> <<>>, written |-> {}, partial |-> {},
            net |-> <<>>, open |-> <<>>]

\* no call of http.get is modelled, and dump was not called before
InitHttpOff ==
    /\ first = NoFirst
    /\ hpc = "off"
    /\ retry = 1
    /\ max_retries = 0
    /\ attempts = <<>>
    /\ sleeps = <<>>
    /\ pendingExc = NoExc
    /\ raisedExc = NoExc
    /\ returnedBody = <<>>

\* dump is called directly, without a Dumper
InitDumperOff ==
    /\ dpc = "off"
    /\ default_from_date = 0
    /\ lastExists = FALSE
    /\ lastData = <<>>
    /\ dates = <<>>
    /\ pidsFile = <<>>
    /\ iterFrom = 0
    /\ offset = 0
    /\ requested = <<>>
    /\ pagesGot = <<>>
    /\ yielded = <<>>
    /\ runNo = 0
    /\ datesFile = <<>>
    /\ lastBefore = [exists |-> FALSE, data |-> <<>>]
    /\ prevNewest = 0

\* the files a run may find on disk
InitDisk ==
    \E present \in SUBSET Dests :
        /\ fs = [d \in present |-> OldContent]
        /\ dirs = (present # {})

\* a run of dump with its default options over any pids_file, against a
\* remote service that holds every document
Init ==
    /\ lines \in [1..MaxLines -> LineValues]
    /\ concurrency \in 1..MaxConcurrency
    /\ overwrite = DefaultOverwrite
    /\ preservenull = DefaultPreserveNull
    /\ remote = {Document}
    /\ InitDisk
    /\ InitRun
    /\ InitHttpOff
    /\ InitDumperOff

\* a run of dump with any options over a short pids_file, against a remote
\* service that may answer with any body
InitDoc ==
    /\ lines \in [1..MaxDocLines -> LineValues]
    /\ concurrency \in 1..MaxConcurrency
    /\ overwrite \in BOOLEAN
    /\ preservenull \in BOOLEAN
    /\ remote = Responses
    /\ InitDisk
    /\ InitRun
    /\ InitHttpOff
    /\ InitDumperOff

\* ------------------------------------------------------------ main thread

\* ThreadPoolExecutor._adjust_thread_count: a thread is started for a new
\* work item unless a worker is idle or max_workers threads exist
AdjustThreadCountFixedPool ==
    IF numThreads < MaxConcurrency /\ Cardinality(Running) = numThreads
    THEN numThreads + 1 ELSE numThreads
AdjustThreadCount ==
    IF numThreads < concurrency /\ Cardinality(Running) = numThreads
    THEN numThreads + 1 ELSE numThreads

\* one iteration of the dict comprehension over get_pid_and_dest: blank
\* lines are dropped, every other line is submitted to the executor
Submit ==
    /\ mainpc = "submit"
    /\ nextLine <= Len(lines)
    /\ nextLine' = nextLine + 1
    /\ LET pid == Strip(lines[nextLine])
           t == Len(future_to_file) + 1
       IN IF pid = <<>>
          THEN UNCHANGED <<future_to_file, poolVars>>
          ELSE /\ future_to_file' = Append(future_to_file, DestOf(pid))
               /\ fut' = [fut EXCEPT ![t] = "PENDING"]
               /\ queue' = Append(queue, t)
               /\ numThreads' = AdjustThreadCount
               /\ UNCHANGED <<exc, execCount, beganPhase>>
    /\ UNCHANGED <<httpVars, dumperVars, rerunVars, inputVars, mainpc, ftfBound, interrupted, cancelIdx,
                   cancelRequested, collected, progress, logged, propagating,
                   taskVars, diskVars, poisoned>>

\* the comprehension is exhausted: future_to_file is assigned
SubmitDone ==
    /\ mainpc = "submit"
    /\ nextLine > Len(lines)
    /\ ftfBound' = TRUE
    /\ mainpc' = "wait"
    /\ UNCHANGED <<httpVars, dumperVars, rerunVars, inputVars, nextLine, future_to_file, interrupted, cancelIdx,
                   cancelRequested, collected, progress, logged, propagating,
                   poolVars, taskVars, diskVars, poisoned>>

\* one iteration of the as_completed loop, whose except clause lets the
\* exception of the task escape
CollectNoCatch(t) ==
    /\ mainpc = "wait"
    /\ t \in Tasks \ collected
    /\ fut[t] = "FINISHED"
    /\ collected' = collected \cup {t}
    /\ progress' = progress + 1
    /\ IF exc[t]
       THEN /\ propagating' = "Exception"
            /\ mainpc' = "exit"
       ELSE UNCHANGED <<propagating, mainpc>>
    /\ UNCHANGED <<httpVars, dumperVars, rerunVars, inputVars, nextLine, future_to_file, ftfBound, interrupted,
                   cancelIdx, cancelRequested, logged, poolVars, taskVars,
                   diskVars, poisoned>>

\* pbar.update(1), before future.result() is looked at
ProgressAfterSuccessOnly(t) == IF exc[t] THEN progress ELSE progress + 1
ProgressAfter(t) == progress + 1

\* one iteration of the as_completed loop: pbar.update(1), future.result(),
\* and LOGGER.exception when the task raised
Collect(t) ==
    /\ mainpc = "wait"
    /\ t \in Tasks \ collected
    /\ fut[t] = "FINISHED"
    /\ collected' = collected \cup {t}
    /\ progress' = ProgressAfter(t)
    /\ logged' = IF exc[t] THEN logged \cup {t} ELSE logged
    /\ UNCHANGED <<httpVars, dumperVars, rerunVars, inputVars, mainpc, nextLine, future_to_file, ftfBound,
                   interrupted, cancelIdx, cancelRequested, propagating,
                   poolVars, taskVars, diskVars, poisoned>>

\* as_completed has yielded every future: the try block ends
WaitDone ==
    /\ mainpc = "wait"
    /\ collected = Tasks
    /\ mainpc' = "exit"
    /\ UNCHANGED <<httpVars, dumperVars, rerunVars, inputVars, nextLine, future_to_file, ftfBound, interrupted,
                   cancelIdx, cancelRequested, collected, progress, logged,
                   propagating, poolVars, taskVars, diskVars, poisoned>>

\* a KeyboardInterrupt is raised in the main thread inside the try block
KeyboardInterrupt ==
    /\ mainpc \in {"submit", "wait"}
    /\ interrupted = "no"
    /\ interrupted' = mainpc
    /\ propagating' = "KeyboardInterrupt"
    /\ mainpc' = "handler"
    /\ UNCHANGED <<httpVars, dumperVars, rerunVars, inputVars, nextLine, future_to_file, ftfBound, cancelIdx,
                   cancelRequested, collected, progress, logged, poolVars,
                   taskVars, diskVars, poisoned>>

\* except KeyboardInterrupt: LOGGER.info(...); pill.poisoned = True
HandlerPoison ==
    /\ mainpc = "handler"
    /\ poisoned' = TRUE
    /\ mainpc' = "cancel"
    /\ cancelIdx' = 1
    /\ UNCHANGED <<httpVars, dumperVars, rerunVars, inputVars, nextLine, future_to_file, ftfBound, interrupted,
                   cancelRequested, collected, progress, logged, propagating,
                   poolVars, taskVars, diskVars>>

\* Future.cancel(): only a future that is not yet running is cancelled
CancelFuture(t) ==
    [fut EXCEPT ![t] = IF fut[t] = "PENDING" THEN "CANCELLED" ELSE fut[t]]

\* for future in future_to_file.keys(): future.cancel(), one future per
\* step; the NameError of an unbound future_to_file is swallowed
HandlerCancel ==
    /\ mainpc = "cancel"
    /\ IF ftfBound /\ cancelIdx <= Len(future_to_file)
       THEN /\ fut' = CancelFuture(cancelIdx)
            /\ cancelRequested' = cancelRequested \cup {cancelIdx}
            /\ cancelIdx' = cancelIdx + 1
            /\ UNCHANGED mainpc
       ELSE /\ mainpc' = "exit"
            /\ UNCHANGED <<fut, cancelRequested, cancelIdx>>
    /\ UNCHANGED <<httpVars, dumperVars, rerunVars, inputVars, nextLine, future_to_file, ftfBound, interrupted,
                   collected, progress, logged, propagating, exc, queue,
                   numThreads, execCount, beganPhase, taskVars,
                   diskVars, poisoned>>

\* executor.shutdown(wait=True) returns once the workers have drained the
\* queue and ended
PoolDrainedNoWait == TRUE
PoolDrained == queue = <<>> /\ Running = {}

\* ThreadPoolExecutor.__exit__: wait for the pool, then leave dump
Shutdown ==
    /\ mainpc = "exit"
    /\ PoolDrained
    /\ mainpc' = IF propagating = "none" THEN "returned" ELSE "raised"
    /\ UNCHANGED <<httpVars, dumperVars, rerunVars, inputVars, nextLine, future_to_file, ftfBound, interrupted,
                   cancelIdx, cancelRequested, collected, progress, logged,
                   propagating, poolVars, taskVars, diskVars, poisoned>>

\* ---------------------------------------------------------- worker threads
\* A worker thread runs one work item at a time, so a work item can be
\* taken from the queue only while fewer items are running than there are
\* threads.

\* download_doc returns or raises: the Future is resolved with the return
\* value or with the exception, and the worker is idle again
Finish(t, outcome) ==
    /\ fut' = [fut EXCEPT ![t] = "FINISHED"]
    /\ exc' = [exc EXCEPT ![t] = (outcome = "failed")]
    /\ tpc' = [tpc EXCEPT ![t] = "done"]
    /\ outcomes' = [outcomes EXCEPT ![t] = @ \cup {outcome}]

\* the task performs real work: a network call or a write to its file
RealWork(t, kind) ==
    /\ io' = [io EXCEPT ![t] = @ \cup {kind}]
    /\ workAfterPoison' = IF poisoned THEN workAfterPoison \cup {t}
                          ELSE workAfterPoison

\* how far the main thread is with an interrupt
Phase ==
    IF poisoned THEN "poisoned"
    ELSE IF interrupted # "no" THEN "interrupted" ELSE "normal"

\* work_queue.get(block=True): the queue is first in, first out
TakeNewest ==
    [item |-> queue[Len(queue)], rest |-> SubSeq(queue, 1, Len(queue) - 1)]
Take == [item |-> Head(queue), rest |-> Tail(queue)]

\* _worker: an idle worker takes the next work item; _WorkItem.run drops
\* it when its future was cancelled and starts download_doc otherwise
WorkerTake ==
    /\ Cardinality(Running) < numThreads
    /\ queue # <<>>
    /\ queue' = Take.rest
    /\ LET t == Take.item
       IN IF fut[t] = "CANCELLED"
          THEN UNCHANGED <<fut, tpc, execCount, beganPhase>>
          ELSE /\ fut' = [fut EXCEPT ![t] = "RUNNING"]
               /\ tpc' = [tpc EXCEPT ![t] = "pill"]
               /\ execCount' = [execCount EXCEPT ![t] = @ + 1]
               /\ beganPhase' = [beganPhase EXCEPT ![t] = Phase]
    /\ UNCHANGED <<httpVars, dumperVars, rerunVars, inputVars, mainVars, exc, numThreads, content, io,
                   outcomes, foundExisting, workAfterPoison,
                   diskVars, poisoned>>

\* the value of pill.poisoned as download_doc reads it
PillSetIgnored == FALSE
PillSet == poisoned

\* if pill.poisoned: return
CheckPill(t) ==
    /\ fut[t] = "RUNNING"
    /\ tpc[t] = "pill"
    /\ IF PillSet
       THEN Finish(t, "poisoned")
       ELSE /\ tpc' = [tpc EXCEPT ![t] = "exists"]
            /\ UNCHANGED <<fut, exc, outcomes>>
    /\ UNCHANGED <<httpVars, dumperVars, rerunVars, inputVars, mainVars, queue, numThreads, execCount,
                   beganPhase, content, io, foundExisting, workAfterPoison, diskVars, poisoned>>

\* not overwrite and os.path.exists(dest)
SkipExistingNever(dest) == FALSE
SkipExisting(dest) == ~overwrite /\ Exists(dest)

\* if not overwrite and os.path.exists(dest): log and return; otherwise
\* os.makedirs(os.path.dirname(dest), exist_ok=True)
CheckExists(t) ==
    /\ fut[t] = "RUNNING"
    /\ tpc[t] = "exists"
    /\ foundExisting' = [foundExisting EXCEPT
                           ![t] = ~overwrite /\ Exists(future_to_file[t])]
    /\ IF SkipExisting(future_to_file[t])
       THEN /\ Finish(t, "skipped")
            /\ UNCHANGED <<io, dirs>>
       ELSE /\ dirs' = TRUE
            /\ io' = [io EXCEPT ![t] = @ \cup {"mkdir"}]
            /\ tpc' = [tpc EXCEPT ![t] = "get"]
            /\ UNCHANGED <<fut, exc, outcomes>>
    /\ UNCHANGED <<httpVars, dumperVars, rerunVars, inputVars, mainVars, queue, numThreads, execCount,
                   beganPhase, content, workAfterPoison,
                   fs, poisoned>>

\* not preserve_null and len(content) == 4
SuppressedNever(payload) == FALSE
Suppressed(payload) == ~preservenull /\ Len(payload) = 4

\* content = http.get(url), which returns a payload or raises, followed by
\* the test for the null response
Get(t) ==
    /\ fut[t] = "RUNNING"
    /\ tpc[t] = "get"
    /\ RealWork(t, "net")
    /\ \/ /\ Finish(t, "failed")
          /\ UNCHANGED content
       \/ \E payload \in remote :
            /\ content' = [content EXCEPT ![t] = payload]
            /\ IF Suppressed(payload)
               THEN Finish(t, "skipped")
               ELSE /\ tpc' = [tpc EXCEPT ![t] = "open"]
                    /\ UNCHANGED <<fut, exc, outcomes>>
    /\ UNCHANGED <<httpVars, dumperVars, rerunVars, inputVars, mainVars, queue, numThreads, execCount,
                   beganPhase, foundExisting, diskVars, poisoned>>

\* open(dest, "wb"): the file is created or truncated, or open raises
OpenDest(t) ==
    /\ fut[t] = "RUNNING"
    /\ tpc[t] = "open"
    /\ RealWork(t, "open")
    /\ \/ /\ Finish(t, "failed")
          /\ UNCHANGED fs
       \/ /\ fs' = FsWrite(future_to_file[t], <<>>)
          /\ tpc' = [tpc EXCEPT ![t] = "write"]
          /\ UNCHANGED <<fut, exc, outcomes>>
    /\ UNCHANGED <<httpVars, dumperVars, rerunVars, inputVars, mainVars, queue, numThreads, execCount,
                   beganPhase, content, foundExisting, dirs, poisoned>>

\* dest_file.write(content) and the close of the file
WriteDest(t) ==
    /\ fut[t] = "RUNNING"
    /\ tpc[t] = "write"
    /\ RealWork(t, "write")
    /\ fs' = FsWrite(future_to_file[t], content[t])
    /\ Finish(t, "written")
    /\ UNCHANGED <<httpVars, dumperVars, rerunVars, inputVars, mainVars, queue, numThreads, execCount,
                   beganPhase, content, foundExisting, dirs, poisoned>>

\* ------------------------------------------------------------ composition

Next ==
    \/ Submit
    \/ SubmitDone
    \/ \E t \in TaskIds : Collect(t)
    \/ WaitDone
    \/ KeyboardInterrupt
    \/ HandlerPoison
    \/ HandlerCancel
    \/ Shutdown
    \/ WorkerTake
    \/ \E t \in TaskIds : CheckPill(t)
    \/ \E t \in TaskIds : CheckExists(t)
    \/ \E t \in TaskIds : Get(t)
    \/ \E t \in TaskIds : OpenDest(t)
    \/ \E t \in TaskIds : WriteDest(t)

Spec == Init /\ [][Next]_vars
SpecDoc == InitDoc /\ [][Next]_vars

TypeOK ==
    /\ mainpc \in {"idle", "submit", "wait", "handler", "cancel", "exit",
                   "returned", "raised"}
    /\ numThreads \in 0..concurrency
    /\ \A t \in TaskIds : fut[t] \in {"NONE", "PENDING", "RUNNING",
                                       "CANCELLED", "FINISHED"}
    /\ progress \in 0..MaxLines

\* ------------------------------------------------- amdump/http.py: get
\* One call of get as decorated by retry_gracefully() with its default
\* arguments.  Every invocation of the undecorated get ends in one of the
\* ways requests.get and raise_for_status can end.

MAX_RETRIES == 4
\* BACKOFF_FACTOR = 1.9, as the fraction BackoffNum / BackoffDen
BackoffNum == 19
BackoffDen == 10

\* retry_gracefully's default exc_list
ExcListBoth == {"RetryableError", "NonRetryableError"}
ExcList == {"RetryableError"}

\* the status codes a response may carry
Statuses == {200, 399, 400, 499, 500, 599}

\* what one requests.get(url, timeout=timeout) can do: raise, or return a
\* response with a status code and a body
RawOutcomes ==
    [kind : {"ConnectionError", "Timeout", "InvalidSchema", "MissingSchema",
             "InvalidURL", "TooManyRedirects"},
     status : {0}, body : {<<>>}]
    \cup [kind : {"Response"}, status : Statuses, body : {Document}]

RECURSIVE Pow(_, _)
Pow(b, n) == IF n = 0 THEN 1 ELSE b * Pow(b, n - 1)

\* wait_seconds = self.backoff_factor ** retry, as <<numerator, denominator>>
WaitSecondsLinear(r) == <<BackoffNum, BackoffDen>>
WaitSeconds(r) == <<Pow(BackoffNum, r), Pow(BackoffDen, r)>>

\* response.raise_for_status() raises HTTPError for a 4xx or 5xx status
RaisesForStatus(status) == 400 <= status /\ status < 600

\* the body of get: what it raises ("none" when it returns) for what
\* requests.get did
GetRaisesAllRetryable(raw) ==
    IF raw.kind = "Response" /\ ~RaisesForStatus(raw.status)
    THEN "none" ELSE "RetryableError"
GetRaises(raw) ==
    IF raw.kind \in {"ConnectionError", "Timeout"} THEN "RetryableError"
    ELSE IF raw.kind \in {"InvalidSchema", "MissingSchema", "InvalidURL"}
    THEN "NonRetryableError"
    ELSE IF raw.kind = "Response"
    THEN IF RaisesForStatus(raw.status)
         THEN IF 400 <= raw.status /\ raw.status < 500
              THEN "NonRetryableError"
              ELSE IF 500 <= raw.status /\ raw.status < 600
              THEN "RetryableError"
              ELSE "HTTPError"
         ELSE "none"
    ELSE raw.kind

\* if retry <= self.max_retries
MayRetryOneLess == retry < max_retries
MayRetry == retry <= max_retries

InitHttp ==
    /\ hpc = "call"
    /\ retry = 1
    /\ max_retries = MAX_RETRIES
    /\ attempts = <<>>
    /\ sleeps = <<>>
    /\ pendingExc = NoExc
    /\ raisedExc = NoExc
    /\ returnedBody = <<>>
    /\ first = NoFirst
    /\ fs = <<>>
    /\ dirs = FALSE
    /\ InitRun
    /\ InitDumperOff
    /\ lines = <<>>
    /\ concurrency = 1
    /\ overwrite = DefaultOverwrite
    /\ preservenull = DefaultPreserveNull
    /\ remote = {Document}

\* return func(*args, **kwargs): get runs once; it returns the body, or
\* raises an exception that the except clause catches when it is listed
\* and that leaves the wrapper otherwise
Invoke ==
    /\ hpc = "call"
    /\ \E raw \in RawOutcomes :
         LET e == [type |-> GetRaises(raw), id |-> Len(attempts) + 1]
         IN /\ attempts' = Append(attempts, raw)
            /\ IF e.type = "none"
               THEN /\ hpc' = "returned"
                    /\ returnedBody' = raw.body
                    /\ UNCHANGED <<pendingExc, raisedExc>>
               ELSE IF e.type \in ExcList
               THEN /\ hpc' = "caught"
                    /\ pendingExc' = e
                    /\ UNCHANGED <<returnedBody, raisedExc>>
               ELSE /\ hpc' = "raised"
                    /\ raisedExc' = e
                    /\ UNCHANGED <<returnedBody, pendingExc>>
    /\ UNCHANGED <<retry, max_retries, sleeps, pipelineVars, dumperVars,
                   rerunVars>>

\* except self.exc_list: sleep and count the retry, or re-raise
Except ==
    /\ hpc = "caught"
    /\ IF MayRetry
       THEN /\ sleeps' = Append(sleeps, WaitSeconds(retry))
            /\ retry' = retry + 1
            /\ hpc' = "call"
            /\ UNCHANGED raisedExc
       ELSE /\ raisedExc' = pendingExc
            /\ hpc' = "raised"
            /\ UNCHANGED <<sleeps, retry>>
    /\ UNCHANGED <<max_retries, attempts, pendingExc, returnedBody,
                   pipelineVars, dumperVars, rerunVars>>

NextHttp == Invoke \/ Except

SpecHttp == InitHttp /\ [][NextHttp]_vars

\* ------------------------------- amdump/articlemeta.py: iter_docs, Dumper
\* Dates are numbered in their lexicographic order; the contents of a file
\* or a date string is a sequence, <<>> for the empty string.

MaxDate == 2           \* newest processing date of the remote service
MaxRuns == 2           \* runs of the Dumper, one after the other

\* FIRST_PUBLICATION_DATE = "1900-01-01", older than every processing date
FIRST_PUBLICATION_DATE == 0

\* iter_docs: limit = 500
Limit == 500

\* Dumper.__init__: concurrency=2
DumperConcurrency == 2

ProcessingDates == 1..MaxDate

\* the codes of the documents of the collection, as the service spells them
RemoteCodes == {<<"p1">>, <<"p2", " ">>}

\* the objects of the listing endpoint
Docs == [code : RemoteCodes, processing_date : ProcessingDates]

\* the from_date a caller may construct the Dumper with
DefaultFromDates == {<<FIRST_PUBLICATION_DATE>>, <<1>>}

RECURSIVE SeqsUpTo(_, _)
SeqsUpTo(S, n) ==
    IF n = 0 THEN {<<>>}
    ELSE LET shorter == SeqsUpTo(S, n - 1)
         IN shorter \cup {Append(q, x) : q \in shorter, x \in S}

\* the listing endpoint honours from=: it answers with documents whose
\* processing date is not older than from_dt, in any order
Honours(from_dt, doc) ==
    IF from_dt = <<>> THEN TRUE ELSE doc.processing_date >= from_dt[1]

\* Dumper.from_date
FromDateAlwaysDefault == default_from_date
FromDate == IF lastExists THEN lastData ELSE default_from_date

\* offset += limit
NextOffsetByOne(o) == o + 1
NextOffset(o) == o + Limit

\* "\n".join(pids) as the lines a reader of the file gets
JoinLines(pids) ==
    LET n == IF pids # <<>> /\ pids[Len(pids)] = <<>>
             THEN Len(pids) - 1 ELSE Len(pids)
    IN [i \in 1..n |-> IF i < Len(pids) THEN pids[i] \o <<"\n">>
                                         ELSE pids[i]]

\* the thread pool of a call of dump that has not begun
InitPool ==
    /\ poisoned = FALSE
    /\ mainpc = "idle"
    /\ nextLine = 1
    /\ future_to_file = <<>>
    /\ ftfBound = FALSE
    /\ fut = [t \in TaskIds |-> "NONE"]
    /\ exc = [t \in TaskIds |-> FALSE]
    /\ queue = <<>>
    /\ numThreads = 0
    /\ tpc = [t \in TaskIds |-> "none"]
    /\ content = [t \in TaskIds |-> <<>>]
    /\ interrupted = "no"
    /\ cancelIdx = 1
    /\ cancelRequested = {}
    /\ collected = {}
    /\ progress = 0
    /\ logged = {}
    /\ io = [t \in TaskIds |-> {}]
    /\ outcomes = [t \in TaskIds |-> {}]
    /\ execCount = [t \in TaskIds |-> 0]
    /\ beganPhase = [t \in TaskIds |-> "none"]
    /\ foundExisting = [t \in TaskIds |-> FALSE]
    /\ propagating = "none"
    /\ workAfterPoison = {}

\* the state of the pool of the previous call of dump is gone
ResetPool ==
    /\ poisoned' = FALSE
    /\ mainpc' = "idle"
    /\ nextLine' = 1
    /\ future_to_file' = <<>>
    /\ ftfBound' = FALSE
    /\ fut' = [t \in TaskIds |-> "NONE"]
    /\ exc' = [t \in TaskIds |-> FALSE]
    /\ queue' = <<>>
    /\ numThreads' = 0
    /\ tpc' = [t \in TaskIds |-> "none"]
    /\ content' = [t \in TaskIds |-> <<>>]
    /\ interrupted' = "no"
    /\ cancelIdx' = 1
    /\ cancelRequested' = {}
    /\ collected' = {}
    /\ progress' = 0
    /\ logged' = {}
    /\ io' = [t \in TaskIds |-> {}]
    /\ outcomes' = [t \in TaskIds |-> {}]
    /\ execCount' = [t \in TaskIds |-> 0]
    /\ beganPhase' = [t \in TaskIds |-> "none"]
    /\ foundExisting' = [t \in TaskIds |-> FALSE]
    /\ propagating' = "none"
    /\ workAfterPoison' = {}

\* Dumper(collection, from_date): a Dumper with its default options in a
\* working directory that may hold the watermark of earlier runs
InitDumper ==
    /\ dpc = "new"
    /\ default_from_date \in DefaultFromDates
    /\ \/ lastExists = FALSE /\ lastData = <<>>
       \/ lastExists = TRUE /\ lastData \in {<<d>> : d \in ProcessingDates}
    /\ lastBefore = [exists |-> lastExists, data |-> lastData]
    /\ dates = <<>>
    /\ pidsFile = <<>>
    /\ datesFile = <<>>
    /\ iterFrom = <<>>
    /\ offset = 0
    /\ requested = <<>>
    /\ pagesGot = <<>>
    /\ yielded = <<>>
    /\ runNo = 1
    /\ prevNewest = 0
    /\ lines = <<>>
    /\ concurrency = DumperConcurrency
    /\ overwrite = DefaultOverwrite
    /\ preservenull = DefaultPreserveNull
    /\ remote = {Document}
    /\ fs = <<>>
    /\ dirs = FALSE
    /\ InitPool
    /\ InitHttpOff

\* download_pids opens the pids file; _download_pids reads the watermark
\* and calls iter_docs with it
DownloadPids ==
    /\ dpc = "new"
    /\ iterFrom' = FromDate
    /\ offset' = 0
    /\ pidsFile' = <<>>
    /\ dpc' = "page"
    /\ UNCHANGED <<default_from_date, lastExists, lastData, dates, datesFile,
                   requested, pagesGot, yielded, runNo, lastBefore,
                   prevNewest, pipelineVars, httpVars, rerunVars>>

\* the documents iter_docs has been given so far
Listed == Len(yielded)

\* one turn of iter_docs' loop, consumed by _download_pids and by join:
\* http.get raises, or answers with a page; an empty page ends the
\* generator and download_pids writes the pids file and dates.txt
IterPage ==
    /\ dpc = "page"
    /\ requested' = Append(requested, [limit |-> Limit, offset |-> offset])
    /\ \/ /\ dpc' = "HttpError"
          /\ UNCHANGED <<offset, pagesGot, yielded, dates, pidsFile,
                         datesFile>>
       \/ \E page \in SeqsUpTo(Docs, MaxLines - Listed) :
             /\ \A i \in 1..Len(page) : Honours(iterFrom, page[i])
             /\ pagesGot' = Append(pagesGot, page)
             /\ IF Len(page) = 0
                THEN /\ pidsFile' =
                          JoinLines([i \in 1..Len(yielded) |->
                                        Strip(yielded[i][1])])
                     /\ datesFile' = dates
                     /\ dpc' = "listed"
                     /\ UNCHANGED <<offset, yielded, dates>>
                ELSE /\ yielded' = yielded \o
                          [i \in 1..Len(page) |->
                              <<page[i].code, page[i].processing_date>>]
                     /\ dates' = dates \o
                          [i \in 1..Len(page) |-> page[i].processing_date]
                     /\ offset' = NextOffset(offset)
                     /\ UNCHANGED <<dpc, pidsFile, datesFile>>
    /\ UNCHANGED <<default_from_date, lastExists, lastData, iterFrom, runNo,
                   lastBefore, prevNewest, pipelineVars, httpVars, rerunVars>>

\* dump_json opens the pids file and calls dump with the Dumper's options;
\* the generator of iter_docs, exhausted, is gone with its locals
DumpJson ==
    /\ dpc = "listed"
    /\ mainpc = "idle"
    /\ lines' = pidsFile
    /\ mainpc' = "submit"
    /\ dpc' = "dump"
    /\ iterFrom' = <<>>
    /\ offset' = 0
    /\ requested' = <<>>
    /\ pagesGot' = <<>>
    /\ yielded' = <<>>
    /\ UNCHANGED <<concurrency, overwrite, preservenull, remote, nextLine,
                   future_to_file, ftfBound, interrupted, cancelIdx,
                   cancelRequested, collected, progress, logged, propagating,
                   poolVars, taskVars, diskVars, poisoned, httpVars,
                   default_from_date, lastExists, lastData, dates, pidsFile,
                   datesFile, runNo, lastBefore, prevNewest, rerunVars>>

\* dump has returned to dump_json
DumpReturnedEarly == dpc = "dump" /\ mainpc \in {"wait", "exit", "returned"}
DumpReturned == dpc = "dump" /\ mainpc = "returned"

\* with open(self.last_filepath, "w") as last_file:
\*     last_file.write(self._dates[-1])
WriteLast ==
    /\ DumpReturned
    /\ lastExists' = TRUE
    /\ IF dates = <<>>
       THEN /\ lastData' = <<>>
            /\ dpc' = "IndexError"
       ELSE /\ lastData' = <<dates[Len(dates)]>>
            /\ dpc' = "done"
    /\ UNCHANGED <<default_from_date, dates, pidsFile, datesFile, iterFrom,
                   offset, requested, pagesGot, yielded, runNo, lastBefore,
                   prevNewest, pipelineVars, httpVars, rerunVars>>

\* the KeyboardInterrupt dump re-raised leaves dump_json
DumpRaised ==
    /\ dpc = "dump"
    /\ mainpc = "raised"
    /\ dpc' = "interrupted"
    /\ UNCHANGED <<default_from_date, lastExists, lastData, dates, pidsFile,
                   datesFile, iterFrom, offset, requested, pagesGot, yielded,
                   runNo, lastBefore, prevNewest, pipelineVars, httpVars, rerunVars>>

RECURSIVE MaxOf(_)
MaxOf(q) ==
    IF Len(q) = 1 THEN q[1]
    ELSE LET m == MaxOf(Tail(q)) IN IF q[1] > m THEN q[1] ELSE m

\* the operator starts the next run, with a fresh Dumper
StartRun ==
    /\ dpc \in {"done", "IndexError", "interrupted", "HttpError"}
    /\ runNo < MaxRuns
    /\ runNo' = runNo + 1
    /\ prevNewest' = IF dpc = "done" THEN MaxOf(dates) ELSE 0
    /\ lastBefore' = [exists |-> lastExists, data |-> lastData]
    /\ dpc' = "new"
    /\ dates' = <<>>
    /\ pidsFile' = <<>>
    /\ datesFile' = <<>>
    /\ iterFrom' = <<>>
    /\ offset' = 0
    /\ requested' = <<>>
    /\ pagesGot' = <<>>
    /\ yielded' = <<>>
    /\ lines' = <<>>
    /\ ResetPool
    /\ UNCHANGED <<default_from_date, lastExists, lastData, concurrency,
                   overwrite, preservenull, remote, diskVars, httpVars,
                   rerunVars>>

\* the enumeration of the identifiers alone
NextPids ==
    \/ DownloadPids
    \/ IterPage
    \/ StartRun

SpecPids == InitDumper /\ [][NextPids]_vars

\* runs of download_pids followed by dump_json
NextDumper ==
    \/ DownloadPids
    \/ IterPage
    \/ DumpJson
    \/ WriteLast
    \/ DumpRaised
    \/ StartRun
    \/ Next

SpecDumper == InitDumper /\ [][NextDumper]_vars

\* --------------------------- dump called again over the same pids_file
\* The operator runs dump a second time with the same arguments in the
\* same dest_dir, after the first call has returned or raised, or after
\* the process of the first call was killed.

\* what http.get answered to the tasks of this call that asked for dest:
\* the bodies, <<>> standing for an exception
NetAnswers(dest) ==
    {content[t] : t \in {u \in Tasks : /\ future_to_file[u] = dest
                                       /\ "net" \in io[u]
                                       /\ tpc[u] # "get"}}

\* how open(dest, "wb") went for the tasks of this call that called it
OpenAnswers(dest) ==
    {IF "failed" \in outcomes[t] THEN "raised" ELSE "opened" :
        t \in {u \in Tasks : future_to_file[u] = dest /\ "open" \in io[u]}}

\* the files a task of this call has opened and not yet written
BeingWritten ==
    {future_to_file[t] : t \in {u \in Tasks : tpc[u] = "write"}}

\* the files the tasks of this call have written
WrittenInRun ==
    {future_to_file[t] : t \in {u \in Tasks : "written" \in outcomes[u]}}

\* the traces of the call that ends here
LeftBehind(ended) ==
    [ended |-> ended, fs |-> fs, written |-> WrittenInRun,
     partial |-> IF ended = "killed" THEN BeingWritten ELSE {},
     net |-> [d \in Dests |-> NetAnswers(d)],
     open |-> [d \in Dests |-> OpenAnswers(d)]]

\* the first call is over and the operator starts the program again
Rerun ==
    /\ dpc = "off"
    /\ first.ended = "none"
    /\ mainpc \in {"returned", "raised"}
    /\ first' = LeftBehind(mainpc)
    /\ ResetPool
    /\ UNCHANGED <<inputVars, diskVars, httpVars, dumperVars>>

\* the process is killed while dump is running, its threads with it, and
\* the operator starts the program again
KillAndRerun ==
    /\ dpc = "off"
    /\ first.ended = "none"
    /\ mainpc \in {"submit", "wait", "handler", "cancel", "exit"}
    /\ first' = LeftBehind("killed")
    /\ ResetPool
    /\ UNCHANGED <<inputVars, diskVars, httpVars, dumperVars>>

\* the second call of dump begins
DumpAgain ==
    /\ dpc = "off"
    /\ mainpc = "idle"
    /\ mainpc' = "submit"
    /\ UNCHANGED <<httpVars, dumperVars, rerunVars, inputVars, nextLine,
                   future_to_file, ftfBound, interrupted, cancelIdx,
                   cancelRequested, collected, progress, logged, propagating,
                   poolVars, taskVars, diskVars, poisoned>>

NextTwice ==
    \/ Rerun
    \/ KillAndRerun
    \/ DumpAgain
    \/ Next

SpecTwice == Init /\ [][NextTwice]_vars

\* ----------------------------------------------------------------- claims

RealKinds == {"net", "open", "write"}

\* a line that holds something besides whitespace
NonBlank(line) == \E i \in 1..Len(line) : line[i] \notin Whitespace

\* the destination the pid of a non-blank line is stored at
ExpectedDest(line) == <<"dest_dir", line[1], ".json">>

\* C1: under every interleaving, the number of download_doc tasks that are
\* executing at the same time never exceeds the concurrency limit.
C1_BoundedConcurrency == Cardinality(Running) <= concurrency

C1_Witness ==
    /\ Cardinality(Running) = concurrency
    /\ queue # <<>>

\* C2: in a run that is not cancelled every non-blank line gets exactly one
\* task, in input order, no task is executed twice, and when dump returns
\* every task has ended in exactly one of written, skipped or failed, a
\* failed one having been logged.
C2_VisitedExactlyOnce ==
    interrupted = "no" =>
        /\ \A t \in TaskIds : execCount[t] <= 1
        /\ mainpc = "returned" =>
              LET expected == SelectSeq(lines, NonBlank)
              IN /\ Len(future_to_file) = Len(expected)
                 /\ \A t \in Tasks :
                      /\ future_to_file[t] = ExpectedDest(expected[t])
                      /\ execCount[t] = 1
                      /\ fut[t] = "FINISHED"
                      /\ Cardinality(outcomes[t]) = 1
                      /\ outcomes[t] \subseteq {"written", "skipped", "failed"}
                      /\ "failed" \in outcomes[t] => t \in logged

C2_Witness ==
    /\ mainpc = "returned"
    /\ \E i \in 1..Len(lines) : ~NonBlank(lines[i])
    /\ \E t \in Tasks : "written" \in outcomes[t]

\* C3: a task that runs with overwrite off while its destination file
\* exists makes no network call and neither opens nor writes the file.
C3_ExistingSkipped ==
    \A t \in TaskIds : foundExisting[t] => io[t] \cap RealKinds = {}

C3_Witness ==
    \E t \in Tasks :
        /\ foundExisting[t]
        /\ tpc[t] = "done"
        /\ fs[future_to_file[t]] = OldContent

\* C4: when the fetched payload is the null sentinel and preserve_null is
\* off, download_doc neither creates nor writes the destination file.
C4_NullNotWritten ==
    \A t \in TaskIds :
        (content[t] = NullSentinel /\ ~preservenull) =>
            /\ io[t] \cap {"open", "write"} = {}
            /\ "written" \notin outcomes[t]

C4_Witness ==
    \E t \in Tasks :
        /\ content[t] = NullSentinel
        /\ ~preservenull
        /\ tpc[t] = "done"
        /\ ~Exists(future_to_file[t])

\* C5: only the null sentinel is suppressed: a task that fetched any other
\* payload, 4 bytes long or not, and did not fail has written it to its
\* destination, whatever preserve_null is.
C5_OnlyNullSuppressed ==
    \A t \in TaskIds :
        (/\ tpc[t] = "done"
         /\ content[t] \in Responses \ {NullSentinel}
         /\ "failed" \notin outcomes[t])
        => "written" \in outcomes[t]

\* C6: with the default options, when dump returns, every task whose remote
\* response was a real document has written its file unless it failed, and
\* no task whose remote response was the null sentinel has written a file.
C6_DefaultsSuppressNull ==
    (/\ mainpc = "returned"
     /\ overwrite = DefaultOverwrite
     /\ preservenull = DefaultPreserveNull)
    => \A t \in Tasks :
         /\ (content[t] = Document /\ "failed" \notin outcomes[t])
               => "written" \in outcomes[t]
         /\ content[t] = NullSentinel => io[t] \cap {"open", "write"} = {}

\* C7: a task that begins after the poison flag was set returns at once: it
\* performs no I/O of any kind (network, directory, file) and raises nothing.
C7_PoisonedTasksReturn ==
    \A t \in TaskIds :
        beganPhase[t] = "poisoned" =>
            /\ tpc[t] \in {"pill", "done"}
            /\ io[t] = {}
            /\ ~exc[t]
            /\ outcomes[t] \subseteq {"poisoned"}

C7_Witness ==
    \E t \in Tasks : beganPhase[t] = "poisoned" /\ tpc[t] = "done"

\* C8: the exception of a task never leaves dump: dump raises only the
\* interrupt, every failed task that was collected has been logged, and
\* when dump returns every task has been executed to completion.
C8_TaskExceptionContained ==
    /\ propagating # "Exception"
    /\ mainpc = "raised" => interrupted # "no"
    /\ \A t \in collected : exc[t] <=> t \in logged
    /\ mainpc = "returned" =>
          \A t \in Tasks : fut[t] = "FINISHED" /\ t \in collected

C8_Witness ==
    /\ mainpc = "returned"
    /\ \E t1, t2 \in Tasks :
          /\ t1 < t2
          /\ exc[t1]
          /\ "written" \in outcomes[t2]

\* C9 as stated: whenever dump re-raises an interrupt it has set the poison
\* flag and requested the cancellation of every submitted task, and no task
\* is executing any more.
C9_Original ==
    (mainpc = "raised" /\ interrupted # "no") =>
        /\ poisoned
        /\ cancelRequested = Tasks
        /\ Running = {}

\* C9 as amended: an interrupt inside the try block makes dump set the
\* poison flag before it cancels anything; an interrupt that arrived after
\* future_to_file was built leads to a cancel request for every submitted
\* task, one that arrived during submission to none; the interrupt reaches
\* the caller only when the pool has shut down: no task is queued or running.
C9_InterruptHandling ==
    /\ cancelRequested # {} => poisoned
    /\ (interrupted # "no" /\ mainpc # "handler") => poisoned
    /\ mainpc = "raised" =>
          /\ Running = {}
          /\ queue = <<>>
          /\ \A t \in Tasks : fut[t] \in {"FINISHED", "CANCELLED"}
          /\ interrupted = "wait" => cancelRequested = Tasks
          /\ interrupted = "submit" => cancelRequested = {}

C9_Witness ==
    /\ mainpc = "raised"
    /\ interrupted = "wait"
    /\ \E t \in Tasks : fut[t] = "CANCELLED"
    /\ workAfterPoison # {}

\* C10 as stated: once the interrupt has arrived no newly started task
\* performs real work, only the at most N tasks that were in flight do.
C10_Original ==
    \A t \in TaskIds :
        beganPhase[t] \in {"interrupted", "poisoned"}
            => io[t] \cap RealKinds = {}

\* C10 as amended: once the poison flag is set, at most N tasks perform
\* real work (a network call or a write to a file), and none of them was
\* started after the flag was set.
C10_WorkAfterPoison ==
    /\ Cardinality(workAfterPoison) <= concurrency
    /\ \A t \in workAfterPoison : beganPhase[t] # "poisoned"

C10_Witness ==
    /\ mainpc = "raised"
    /\ concurrency = MaxConcurrency
    /\ Cardinality(workAfterPoison) = concurrency
    /\ \E t \in Tasks : beganPhase[t] = "interrupted" /\ t \in workAfterPoison

\* a wait is shorter than another
Shorter(a, b) == a[1] * b[2] < b[1] * a[2]

\* requests.get failed in a transient way: connection error, timeout, 5xx
IsTransient(raw) ==
    \/ raw.kind \in {"ConnectionError", "Timeout"}
    \/ raw.kind = "Response" /\ raw.status \in 500..599

\* requests.get failed for good: malformed URL, 4xx
IsPermanent(raw) ==
    \/ raw.kind \in {"InvalidSchema", "MissingSchema", "InvalidURL"}
    \/ raw.kind = "Response" /\ raw.status \in 400..499

\* C16: when get returns after K < max_retries RetryableErrors, it was
\* invoked K + 1 times, slept K times, each sleep strictly longer than the
\* one before, and the caller gets the body of the last invocation.
C16_RetryThenSuccess ==
    LET K == Len(attempts) - 1
    IN (hpc = "returned" /\ K < max_retries) =>
          /\ \A i \in 1..K : IsTransient(attempts[i])
          /\ Len(sleeps) = K
          /\ \A i \in 1..(K - 1) : Shorter(sleeps[i], sleeps[i + 1])
          /\ returnedBody = attempts[K + 1].body

C16_Witness ==
    /\ hpc = "returned"
    /\ Len(attempts) = max_retries
    /\ Len(sleeps) = max_retries - 1
    /\ returnedBody = Document

\* C17: when the first invocation raises an exception that is not listed
\* (NonRetryableError), get is invoked exactly once, never sleeps, and that
\* exception reaches the caller.
C17_UnlistedNotRetried ==
    (Len(attempts) >= 1 /\ IsPermanent(attempts[1])) =>
        /\ hpc = "raised"
        /\ Len(attempts) = 1
        /\ sleeps = <<>>
        /\ raisedExc = [type |-> "NonRetryableError", id |-> 1]

C17_Witness ==
    /\ hpc = "raised"
    /\ Len(attempts) = 1
    /\ attempts[1].kind = "Response"
    /\ attempts[1].status = 400

\* C18: get is never invoked more than max_retries + 1 times nor sleeps
\* more than max_retries times, and when a listed exception leaves the
\* wrapper, get was invoked max_retries + 1 times with max_retries sleeps
\* and the exception is the one the last invocation raised.
C18_RetriesExhausted ==
    /\ Len(attempts) <= max_retries + 1
    /\ Len(sleeps) <= max_retries
    /\ (hpc = "raised" /\ raisedExc.type \in {"RetryableError"}) =>
          /\ Len(attempts) = max_retries + 1
          /\ Len(sleeps) = max_retries
          /\ \A i \in 1..Len(attempts) : IsTransient(attempts[i])
          /\ raisedExc = [type |-> "RetryableError", id |-> Len(attempts)]

C18_Witness ==
    /\ hpc = "raised"
    /\ raisedExc.type = "RetryableError"
    /\ Len(sleeps) = MAX_RETRIES

\* C19: an invocation of get that met a connection error, a timeout or a
\* 5xx response raised RetryableError; one that met a malformed URL or a
\* 4xx response raised NonRetryableError; one that got any other response
\* returned its body; any other exception left get as it was.
C19_Classification ==
    LET n == Len(attempts)
    IN /\ \A i \in 1..(n - 1) : IsTransient(attempts[i])
       /\ (n >= 1 /\ hpc = "call") => IsTransient(attempts[n])
       /\ (n >= 1 /\ hpc # "call") =>
             LET raw == attempts[n]
             IN /\ IsTransient(raw) =>
                      /\ hpc \in {"caught", "raised"}
                      /\ pendingExc = [type |-> "RetryableError", id |-> n]
                /\ IsPermanent(raw) =>
                      /\ hpc = "raised"
                      /\ raisedExc = [type |-> "NonRetryableError", id |-> n]
                /\ (raw.kind = "Response" /\ raw.status < 400) =>
                      /\ hpc = "returned"
                      /\ returnedBody = raw.body
                /\ raw.kind = "TooManyRedirects" =>
                      /\ hpc = "raised"
                      /\ raisedExc = [type |-> "TooManyRedirects", id |-> n]

C19_Witness ==
    /\ hpc = "raised"
    /\ Len(attempts) = 2
    /\ attempts[1].kind = "Timeout"
    /\ attempts[2].kind = "InvalidURL"

\* ---- claims about the Dumper and iter_docs

\* the contents of lastdate.txt are what they were when the run started
LastUntouched ==
    /\ lastExists = lastBefore.exists
    /\ lastData = lastBefore.data

\* C11: a run of dump_json that was cancelled by an interrupt, or that
\* failed with an error, has left lastdate.txt as it was before the run.
C11_FailedRunKeepsWatermark ==
    dpc \in {"interrupted", "IndexError"} => LastUntouched

\* C12: a successful run never lowers the watermark; after a successful
\* run whose newest document is older than the newest one of the
\* successful run that followed it, the watermark is the newer date; and
\* the run that follows a successful run requests the identifiers from the
\* newest date of that run.
C12_WatermarkAdvances ==
    /\ (dpc = "done" /\ lastBefore.exists /\ lastBefore.data # <<>>) =>
          lastData[1] >= lastBefore.data[1]
    /\ (dpc = "done" /\ prevNewest > 0 /\ prevNewest < MaxOf(dates)) =>
          lastData = <<MaxOf(dates)>>
    /\ (dpc = "page" /\ prevNewest > 0) => iterFrom = <<prevNewest>>

\* C13: when a run has completed, lastdate.txt holds the maximum of the
\* processing dates the enumerator returned in that run, in whatever order
\* they came.
C13_WatermarkIsMax ==
    dpc = "done" => lastData = <<MaxOf(dates)>>

\* C14: when lastdate.txt has been written, dump has returned: every
\* non-blank line of the pids file was submitted, every task has run and
\* finished, the queue is empty and no worker is executing.
C14_WriteAfterShutdown ==
    dpc \in {"done", "IndexError"} =>
        /\ mainpc = "returned"
        /\ ftfBound
        /\ nextLine > Len(lines)
        /\ Len(future_to_file) =
              Cardinality({i \in 1..Len(lines) : NonBlank(lines[i])})
        /\ \A t \in Tasks : /\ fut[t] = "FINISHED"
                            /\ tpc[t] = "done"
                            /\ execCount[t] = 1
        /\ queue = <<>>
        /\ Running = {}

C14_Witness ==
    /\ dpc = "done"
    /\ Len(future_to_file) = 2
    /\ \E t \in Tasks : "write" \in io[t]

\* C15 as stated: from_date is the fixed epoch when lastdate.txt does not
\* exist, and the contents of the file otherwise.
C15_EpochWhenNoFile ==
    dpc = "page" =>
        iterFrom = IF lastBefore.exists THEN lastBefore.data
                   ELSE <<FIRST_PUBLICATION_DATE>>

\* C15, amended: from_date is the from_date the Dumper was constructed
\* with when lastdate.txt does not exist, and the contents of the file
\* otherwise.
C15_ReadWatermark ==
    dpc = "page" =>
        iterFrom = IF lastBefore.exists THEN lastBefore.data
                   ELSE default_from_date

C15_Witness ==
    /\ dpc = "page"
    /\ ~lastExists
    /\ default_from_date # <<FIRST_PUBLICATION_DATE>>
    /\ iterFrom = default_from_date
    /\ Len(requested) = 1

RECURSIVE PairsOf(_)
PairsOf(pages) ==
    IF pages = <<>> THEN <<>>
    ELSE [i \in 1..Len(Head(pages)) |->
             <<Head(pages)[i].code, Head(pages)[i].processing_date>>]
         \o PairsOf(Tail(pages))

\* C20: iter_docs asks for 500 objects at offsets 0, 500, 1000, ... in
\* that order, in every call; it has yielded the objects of the pages it
\* got, in page order; no page before the last one is empty, and the
\* enumeration is over exactly when the last page is empty.
C20_Pagination ==
    /\ \A i \in 1..Len(requested) :
          requested[i] = [limit |-> 500, offset |-> 500 * (i - 1)]
    /\ Len(pagesGot) \in {Len(requested), Len(requested) - 1}
    /\ \A i \in 1..(Len(pagesGot) - 1) : pagesGot[i] # <<>>
    /\ yielded = PairsOf(pagesGot)
    /\ dpc = "page" =>
          /\ Len(pagesGot) = Len(requested)
          /\ \A i \in 1..Len(pagesGot) : pagesGot[i] # <<>>
    /\ dpc = "HttpError" => Len(pagesGot) = Len(requested) - 1
    /\ dpc = "listed" =>
          /\ Len(pagesGot) = Len(requested)
          /\ pagesGot[Len(pagesGot)] = <<>>

C20_Witness ==
    /\ runNo = 2
    /\ dpc = "listed"
    /\ Len(requested) = 3
    /\ requested[3].offset = 1000
    /\ Len(yielded) = 2

\* ---- claims about dispatch order, progress and the files of a run

\* the tasks that have started executing
Started == {t \in Tasks : execCount[t] >= 1}

\* the tasks are the non-blank lines read so far, in the order of the lines
SubmittedInOrder ==
    LET read == SubSeq(lines, 1, nextLine - 1)
        expected == SelectSeq(read, NonBlank)
    IN /\ Len(future_to_file) = Len(expected)
       /\ \A t \in Tasks : future_to_file[t] = ExpectedDest(expected[t])

C25_ProgressCountsTasks ==
    /\ progress = Cardinality(collected)
    /\ \A t \in collected : fut[t] = "FINISHED"
    /\ mainpc = "returned" =>
          /\ collected = Tasks
          /\ progress = Len(future_to_file)
          /\ progress =
                Cardinality({i \in 1..Len(lines) : NonBlank(lines[i])})

C25_Witness ==
    /\ mainpc = "returned"
    /\ progress = 2
    /\ \E t \in Tasks : "failed" \in outcomes[t]
    /\ \E t \in Tasks : "written" \in outcomes[t]

\* a task of this run has written the file and ended
CompletedInRun(d) ==
    \E t \in Tasks : future_to_file[t] = d /\ "written" \in outcomes[t]

\* C22: once the run is cancelled, no step changes a file that a task of
\* the run has completed, and with overwrite off no step changes a file
\* that was on disk before the run.
C22_CancelledRunKeepsFiles ==
    [][interrupted # "no" =>
          /\ \A d \in DOMAIN fs :
                CompletedInRun(d) => d \in DOMAIN fs' /\ fs'[d] = fs[d]
          /\ ~overwrite =>
                \A d \in DOMAIN fs :
                    fs[d] = OldContent => d \in DOMAIN fs' /\ fs'[d] = OldContent
      ]_vars

\* C26: a run whose enumeration yielded no identifier leaves lastdate.txt
\* with the contents it had before the run, whatever dump_json does.
C26_EmptyRunKeepsWatermark ==
    (dates = <<>> /\ dpc \in {"listed", "dump", "done", "IndexError",
                              "interrupted"}) => LastUntouched

\* the download of the t-th enumerated identifier left its file on disk or
\* was skipped (file already there, or null response)
Settled(t) ==
    /\ outcomes[t] \cap {"written", "skipped"} # {}
    /\ "failed" \notin outcomes[t]

\* C27: when a run has changed the watermark, every identifier it
\* enumerated is settled, or is at least not older than the new watermark,
\* so that the next run lists it again.
C27_NothingLeftBehind ==
    (dpc = "done" /\ lastData # lastBefore.data) =>
        /\ Len(future_to_file) = Len(dates)
        /\ \A t \in Tasks : Settled(t) \/ dates[t] >= lastData[1]

\* ---- claims about a second call of dump

\* the remote answered the same for each file in both calls
SameNet ==
    \A d \in Dests : Cardinality(first.net[d] \cup NetAnswers(d)) <= 1

\* open(dest, "wb") went the same way for each file in both calls
SameOpen ==
    \A d \in Dests : Cardinality(first.open[d] \cup OpenAnswers(d)) <= 1

SameAnswers == SameNet /\ SameOpen

\* the second call asked the remote for no file the first call wrote
NoCallForWritten ==
    \A t \in Tasks :
        future_to_file[t] \in first.written => "net" \notin io[t]

C23_PartialFileNotSkipped ==
    ~overwrite =>
        \A t \in Tasks :
            future_to_file[t] \in first.partial =>
                ~(foundExisting[t] /\ "skipped" \in outcomes[t])

====
